---- MODULE Spec2Model ----
(***************************************************************************)
(* The process subsystem of YasSenOS: the process manager's table, ready   *)
(* queue and current process, the saved and the live register file, the    *)
(* semaphore tables shared through fork, the user address spaces, and the  *)
(* system-call dispatcher that drives them.                                *)
(*                                                                         *)
(* The kernel runs every entry with interrupts masked, so each entry       *)
(* (timer tick, system call, kernel-side spawn) is one atomic action.      *)
(* The kernel's operations are written as functions from a state record    *)
(* to a state record, so that an entry is the composition of the calls the *)
(* source makes, in the source's order.                                    *)
(***************************************************************************)
EXTENDS Integers, Sequences, FiniteSets, TLC

\* ------------------------------------------------------------- bounds
\* pids are drawn from 1..MaxPid
MaxPid == 4
\* in Spec, fork and spawn are disabled once MaxLife pids are allocated
MaxLife == 3
\* a semaphore counter is not signalled beyond MaxCount
MaxCount == 1

\* ---------------------------------------------------------- constants
KERNEL_PID == 1
\* the exit code kill() records
KILL_CODE == 57005
\* usize::MAX, shown as the isize with the same bits
USIZE_MAX == -1
\* u16 wraps at 2^16
U16 == 65536

Pids == 1..MaxPid
NoPid == 0
None == <<>>
Some(v) == <<v>>

\* semaphore keys the programs use
Keys == {1}
\* static M of the fork test and the value the child stores
M_INIT == "0xdeadbeef"
M_CHILD == "0x2333"

VARIABLES
    procs,      \* manager's process table: pid -> Process
    ready,      \* manager's ready queue
    current,    \* the running pid (manager's current, processor::current_pid)
    ctx,        \* the live register file (the interrupt frame's ProcessContext)
    next_pid,   \* ProcessId's allocation counter
    sems,       \* the semaphore tables, by the id of the table
    spaces,     \* the user address spaces, by the id of the page-table root
    last,       \* history: the last entry, when a Kill of pid 1, a Spawn or a Brk
    forkret,    \* history: what a process is to see in rax after the last fork
    hist,       \* history: per semaphore, who blocked and who was woken, in
                \* order; the pids the latest timer ticks dispatched; and
                \* the register file each process left the CPU with
    app_list    \* manager's application list: None, or Some(set of names)

vars ==
    <<procs, ready, current, ctx, next_pid, sems, spaces, last, forkret, hist,
      app_list>>

\* ------------------------------------------------- system-call numbers
\* Syscall::from(rax): a number outside the enumeration decodes to None
Syscall_from(n) ==
    CASE n = 0 -> "Read"
      [] n = 1 -> "Write"
      [] n = 12 -> "Brk"
      [] n = 39 -> "GetPid"
      [] n = 58 -> "Fork"
      [] n = 59 -> "Spawn"
      [] n = 60 -> "Exit"
      [] n = 61 -> "WaitPid"
      [] n = 62 -> "Kill"
      [] n = 66 -> "Sem"
      [] n = 65531 -> "ListApp"
      [] n = 65532 -> "Stat"
      [] OTHER -> "None"

\* the number the user library's syscall! puts in rax for a call
Syscall_no(name) ==
    CHOOSE n \in {0, 1, 12, 39, 58, 59, 60, 61, 62, 66, 65531, 65532} :
        Syscall_from(n) = name

\* --------------------------------------------------------- the state
State ==
    [procs |-> procs, ready |-> ready, current |-> current, ctx |-> ctx,
     next_pid |-> next_pid, sems |-> sems, spaces |-> spaces,
     app_list |-> app_list]

Commit(s) ==
    /\ procs' = s.procs
    /\ ready' = s.ready
    /\ current' = s.current
    /\ ctx' = s.ctx
    /\ next_pid' = s.next_pid
    /\ sems' = s.sems
    /\ spaces' = s.spaces
    /\ app_list' = s.app_list

\* ProcessContext::set_rax
set_rax(s, v) == [s EXCEPT !.ctx.rax = v]

\* the layout of the user half, in address units: pages of PAGE units, the
\* heap from HEAP_START and growing to HEAP_MAX at most, the stack range
\* from STACK_BOT up to STACK_TOP
PAGE == 4
HEAP_START == 8
HEAP_MAX == 16
STACK_BOT == 24
STACK_TOP == 32

\* a user address space as the loader leaves it: the static M, the locals
\* c and pid of the fork test, and the end of the (empty) heap
FreshSpace == [M |-> M_INIT, c |-> 0, pid |-> 0, heap_end |-> HEAP_START]

\* a process as Process::new leaves it, entered at `entry`
NewProcess(entry, parent, semset, vm) ==
    [status |-> "Ready", context |-> [rax |-> 0, rip |-> entry], parent |-> parent,
     exit_code |-> None, waitFor |-> NoPid, semset |-> semset, vm |-> vm]

\* ------------------------------------------------------ SemaphoreSet
EmptySems == [k \in Keys |-> None]

\* SemaphoreSet::insert: TRUE iff the key was absent
sem_new_ok(set, key) == set[key] = None
sem_new_set(set, key, init) ==
    IF sem_new_ok(set, key)
    THEN [set EXCEPT ![key] = Some([count |-> init, queue |-> <<>>])]
    ELSE set

\* SemaphoreSet::remove: TRUE iff the key was present; waiters are dropped
sem_remove_ok(set, key) == set[key] /= None
sem_remove_set(set, key) ==
    IF sem_remove_ok(set, key) THEN [set EXCEPT ![key] = None] ELSE set

\* Semaphore::wait
sem_wait_res(set, key, pid) ==
    IF set[key] = None
    THEN [kind |-> "NotExist", pid |-> NoPid, set |-> set]
    ELSE LET sem == set[key][1]
         IN IF sem.count > 0
            THEN [kind |-> "Ok", pid |-> NoPid,
                  set |-> [set EXCEPT ![key] = Some([sem EXCEPT !.count = @ - 1])]]
            ELSE [kind |-> "Block", pid |-> pid,
                  set |-> [set EXCEPT
                             ![key] = Some([sem EXCEPT !.queue = Append(@, pid)])]]

\* (mutant) the waiter that came last is woken
sem_signal_res_Lifo(set, key) ==
    IF set[key] = None
    THEN [kind |-> "NotExist", pid |-> NoPid, set |-> set]
    ELSE LET sem == set[key][1]
         IN IF sem.queue /= <<>>
            THEN [kind |-> "WakeUp", pid |-> sem.queue[Len(sem.queue)],
                  set |-> [set EXCEPT ![key] = Some([sem EXCEPT
                              !.queue = SubSeq(@, 1, Len(@) - 1)])]]
            ELSE [kind |-> "Ok", pid |-> NoPid,
                  set |-> [set EXCEPT ![key] = Some([sem EXCEPT !.count = @ + 1])]]

\* (mutant) a signal counts up even when it hands over to a waiter
sem_signal_res_AlwaysCounts(set, key) ==
    IF set[key] = None
    THEN [kind |-> "NotExist", pid |-> NoPid, set |-> set]
    ELSE LET sem == set[key][1]
         IN IF sem.queue /= <<>>
            THEN [kind |-> "WakeUp", pid |-> Head(sem.queue),
                  set |-> [set EXCEPT ![key] = Some([sem EXCEPT
                              !.queue = Tail(@), !.count = @ + 1])]]
            ELSE [kind |-> "Ok", pid |-> NoPid,
                  set |-> [set EXCEPT ![key] = Some([sem EXCEPT !.count = @ + 1])]]

\* Semaphore::signal
sem_signal_res(set, key) ==
    IF set[key] = None
    THEN [kind |-> "NotExist", pid |-> NoPid, set |-> set]
    ELSE LET sem == set[key][1]
         IN IF sem.queue /= <<>>
            THEN [kind |-> "WakeUp", pid |-> Head(sem.queue),
                  set |-> [set EXCEPT ![key] = Some([sem EXCEPT !.queue = Tail(@)])]]
            ELSE [kind |-> "Ok", pid |-> NoPid,
                  set |-> [set EXCEPT ![key] = Some([sem EXCEPT !.count = @ + 1])]]

\* a killed waiter leaves every waiter queue
scrub_set(set, pid) ==
    [k \in Keys |->
        IF set[k] = None THEN None
        ELSE Some([set[k][1] EXCEPT !.queue = SelectSeq(@, LAMBDA q : q /= pid)])]

\* ---------------------------------------------------- ProcessManager
\* save_current: the live context into current's slot, Running -> Ready
save_current(s) ==
    [s EXCEPT !.procs[s.current].context = s.ctx,
              !.procs[s.current].status = IF @ = "Running" THEN "Ready" ELSE @]

push_ready(s, pid) == [s EXCEPT !.ready = Append(@, pid)]

\* switch_next: the head of the ready queue, or the kernel when it is empty
switch_next(s) ==
    LET next == IF s.ready = <<>> THEN KERNEL_PID ELSE Head(s.ready)
        rest == IF s.ready = <<>> THEN <<>> ELSE Tail(s.ready)
    IN [s EXCEPT !.ready = rest,
                 !.ctx = s.procs[next].context,
                 !.procs[next].status = "Running",
                 !.current = next]

\* Process::block
block(s, pid) == [s EXCEPT !.procs[pid].status = "Blocked"]

\* wake_up: ret into the saved rax, Blocked -> Ready, back on the ready queue
wake_up(s, pid, ret) ==
    IF pid \in DOMAIN s.procs
    THEN [s EXCEPT !.procs[pid].context.rax = ret,
                   !.procs[pid].status = "Ready",
                   !.procs[pid].waitFor = NoPid,
                   !.ready = Append(@, pid)]
    ELSE s

\* the pids of S in increasing order
RECURSIVE InOrder(_)
InOrder(S) ==
    IF S = {} THEN <<>>
    ELSE LET m == CHOOSE x \in S : \A y \in S : x <= y
         IN <<m>> \o InOrder(S \ {m})

RECURSIVE wake_all(_, _, _)
wake_all(s, pids, ret) ==
    IF pids = <<>> THEN s
    ELSE wake_all(wake_up(s, Head(pids), ret), Tail(pids), ret)

\* (mutant) the waiter queues are left as they are
mark_dead_NoScrub(s, pid, code) ==
    LET waiters == {q \in DOMAIN s.procs \ {pid} :
                       s.procs[q].status = "Blocked" /\ s.procs[q].waitFor = pid}
        s1 == [s EXCEPT !.procs[pid].status = "Dead",
                        !.procs[pid].exit_code = Some(code),
                        !.procs[pid].waitFor = NoPid,
                        !.ready = SelectSeq(@, LAMBDA q : q /= pid)]
    IN wake_all(s1, InOrder(waiters), code)

\* the common part of kill_self and kill: the surviving children handed to
\* the kernel, the process Dead with the code, off the ready queue and the
\* waiter queues, and every process waiting on the pid woken with the code
\* (a wait of the process itself ends with it: it is not among the woken)
mark_dead(s, pid, code) ==
    LET waiters == {q \in DOMAIN s.procs \ {pid} :
                       s.procs[q].status = "Blocked" /\ s.procs[q].waitFor = pid}
        s0 == [s EXCEPT !.procs = [p \in DOMAIN @ |->
                                     IF @[p].parent = pid /\ @[p].status /= "Dead"
                                     THEN [@[p] EXCEPT !.parent = KERNEL_PID]
                                     ELSE @[p]]]
        s1 == [s0 EXCEPT !.procs[pid].status = "Dead",
                        !.procs[pid].exit_code = Some(code),
                        !.procs[pid].waitFor = NoPid,
                        !.ready = SelectSeq(@, LAMBDA q : q /= pid),
                        !.sems = [i \in DOMAIN @ |-> scrub_set(@[i], pid)]]
    IN wake_all(s1, InOrder(waiters), code)

kill_self(s, code) == mark_dead(s, s.current, code)

manager_kill(s, pid, code) ==
    IF pid \in DOMAIN s.procs /\ s.procs[pid].status /= "Dead"
    THEN mark_dead(s, pid, code)
    ELSE s

\* manager.wait_pid: Some(code) and the target removed when it is Dead;
\* None, with the caller recorded as waiting on the pid, otherwise
manager_wait_pid_ret(s, pid) ==
    IF pid \in DOMAIN s.procs /\ s.procs[pid].status = "Dead"
    THEN s.procs[pid].exit_code
    ELSE None

manager_wait_pid(s, pid) ==
    IF manager_wait_pid_ret(s, pid) /= None
    THEN [s EXCEPT !.procs = [p \in DOMAIN @ \ {pid} |-> @[p]]]
    ELSE [s EXCEPT !.procs[s.current].waitFor = pid]

\* (mutant) the child is given the parent's page-table root, not a copy
manager_fork_SharesSpace(s) ==
    LET parent == s.current
        child == s.next_pid
        pctx == s.procs[parent].context
    IN [s EXCEPT
          !.next_pid = @ + 1,
          !.procs = [p \in DOMAIN @ \cup {child} |->
                        IF p = child
                        THEN [NewProcess(pctx.rip, parent, s.procs[parent].semset,
                                         s.procs[parent].vm)
                                EXCEPT !.context = [pctx EXCEPT !.rax = 0]]
                        ELSE IF p = parent
                        THEN [@[p] EXCEPT !.context.rax = child]
                        ELSE @[p]],
          !.ready = Append(@, child)]

\* manager.fork: a new pid, the parent's address space copied, its semaphore
\* table shared, its saved context copied with rax 0 for the child and the
\* child's pid for the parent; the child is put on the ready queue
manager_fork(s) ==
    LET parent == s.current
        child == s.next_pid
        pctx == s.procs[parent].context
    IN [s EXCEPT
          !.next_pid = @ + 1,
          !.procs = [p \in DOMAIN @ \cup {child} |->
                        IF p = child
                        THEN [NewProcess(pctx.rip, parent, s.procs[parent].semset, child)
                                EXCEPT !.context = [pctx EXCEPT !.rax = 0]]
                        ELSE IF p = parent
                        THEN [@[p] EXCEPT !.context.rax = child]
                        ELSE @[p]],
          !.spaces[child] = s.spaces[s.procs[parent].vm],
          !.ready = Append(@, child)]

\* manager.spawn: a new pid with a fresh address space and semaphore table
manager_spawn(s, entry) ==
    LET pid == s.next_pid
    IN [s EXCEPT
          !.next_pid = @ + 1,
          !.procs = [p \in DOMAIN @ \cup {pid} |->
                        IF p = pid THEN NewProcess(entry, s.current, pid, pid) ELSE @[p]],
          !.spaces[pid] = FreshSpace,
          !.sems[pid] = EmptySems,
          !.ready = Append(@, pid)]

\* ------------------------------------------------------- proc (mod.rs)
\* (mutant) the preempted process's registers are not saved
switch_NoSave(s) == switch_next(push_ready(s, s.current))

\* (mutant) the preempted process is not put back on the ready queue
switch_NoRequeue(s) == switch_next(save_current(s))

\* switch: the timer's context switch
switch(s) == switch_next(push_ready(save_current(s), s.current))

\* (mutant) the child is made before the parent's context is saved
fork_SavesLate(s) ==
    LET parent == s.current
    IN switch_next(push_ready(save_current(manager_fork(s)), parent))

\* (mutant) the child, which manager.fork has queued, is queued once more
fork_PushesChild(s) ==
    LET parent == s.current
        child == s.next_pid
    IN switch_next(push_ready(push_ready(manager_fork(save_current(s)), child),
                              parent))

\* fork: the parent saved, the child made, the parent queued behind it
fork(s) ==
    LET parent == s.current
    IN switch_next(push_ready(manager_fork(save_current(s)), parent))

\* (mutant) no process is dispatched after the exit
process_exit_NoSwitch(s, ret) == kill_self(s, ret)

process_exit(s, ret) == switch_next(kill_self(s, ret))

\* (mutant) the code of a Dead target is not written to rax
wait_pid_NoRax(s, pid) ==
    LET ret == manager_wait_pid_ret(s, pid)
        s1 == manager_wait_pid(s, pid)
    IN IF ret /= None
       THEN s1
       ELSE switch_next(block(save_current(s1), s1.current))

\* wait_pid: the code at once when the target is Dead, else block and switch
wait_pid(s, pid) ==
    LET ret == manager_wait_pid_ret(s, pid)
        s1 == manager_wait_pid(s, pid)
    IN IF ret /= None
       THEN set_rax(s1, ret[1])
       ELSE switch_next(block(save_current(s1), s1.current))

\* (mutant) the next process is dispatched after every kill
kill_AlwaysSwitch(s, pid) ==
    IF pid = s.current
    THEN switch_next(kill_self(s, KILL_CODE))
    ELSE switch_next(manager_kill(s, pid, KILL_CODE))

\* (mutant) only the caller itself can be killed
kill_OnlySelf(s, pid) ==
    IF pid = s.current
    THEN switch_next(kill_self(s, KILL_CODE))
    ELSE s

kill(s, pid) ==
    IF pid = s.current
    THEN switch_next(kill_self(s, KILL_CODE))
    ELSE manager_kill(s, pid, KILL_CODE)

\* an address rounded up to a page boundary
RoundUp(a) == ((a + PAGE - 1) \div PAGE) * PAGE

\* (mutant) growth is not capped
Process_brk_NoCap(s, addr) ==
    LET vm == s.procs[s.current].vm
        prior == s.spaces[vm].heap_end
    IN IF addr = None
       THEN [s |-> s, ret |-> prior]
       ELSE [s |-> [s EXCEPT !.spaces[vm].heap_end = RoundUp(addr[1])],
             ret |-> RoundUp(addr[1])]

\* Process::brk: without an address the heap end; with one, the address
\* rounded up to a page becomes the heap end (frames mapped up to it or
\* unmapped beyond it; no lower limit is specified), unless it lies beyond
\* HEAP_MAX, and then the heap end stays and is returned
Process_brk(s, addr) ==
    LET vm == s.procs[s.current].vm
        prior == s.spaces[vm].heap_end
    IN IF addr = None \/ RoundUp(addr[1]) > HEAP_MAX
       THEN [s |-> s, ret |-> prior]
       ELSE [s |-> [s EXCEPT !.spaces[vm].heap_end = RoundUp(addr[1])],
             ret |-> RoundUp(addr[1])]

\* brk: the current process's brk
brk(s, addr) == Process_brk(s, addr)

\* elf_spawn: manager.spawn with the current process as parent
elf_spawn(s, name) == manager_spawn(s, name)

\* (mutant) the application is started without being looked up
spawn_NoLookup(s, name) ==
    [err |-> FALSE, pid |-> s.next_pid, s |-> elf_spawn(s, name)]

\* spawn: Err when there is no application list or the name is not in it,
\* else Ok(pid) of elf_spawn
spawn(s, name) ==
    IF s.app_list = None \/ name \notin s.app_list[1]
    THEN [err |-> TRUE, pid |-> NoPid, s |-> s]
    ELSE [err |-> FALSE, pid |-> s.next_pid, s |-> elf_spawn(s, name)]

\* the semaphore table of the current process
CurSet(s) == s.procs[s.current].semset

\* (mutant) a wait that finds the counter at 0 returns without blocking
sem_wait_NoBlock(s, key) ==
    LET pid == s.current
        ret == sem_wait_res(s.sems[CurSet(s)], key, pid)
        s1 == [s EXCEPT !.sems[CurSet(s)] = ret.set]
    IN CASE ret.kind = "Ok" -> set_rax(s1, 0)
         [] ret.kind = "NotExist" -> set_rax(s1, 1)
         [] ret.kind = "Block" -> set_rax(s1, 0)

sem_wait(s, key) ==
    LET pid == s.current
        ret == sem_wait_res(s.sems[CurSet(s)], key, pid)
        s1 == [s EXCEPT !.sems[CurSet(s)] = ret.set]
    IN CASE ret.kind = "Ok" -> set_rax(s1, 0)
         [] ret.kind = "NotExist" -> set_rax(s1, 1)
         [] ret.kind = "Block" -> switch_next(block(save_current(s1), pid))

\* (mutant) the pid woken is the caller's, not the one the semaphore names
sem_signal_WakesCaller(s, key) ==
    LET pid == s.current
        ret == sem_signal_res(s.sems[CurSet(s)], key)
        s1 == [s EXCEPT !.sems[CurSet(s)] = ret.set]
    IN CASE ret.kind = "Ok" -> set_rax(s1, 0)
         [] ret.kind = "NotExist" -> set_rax(s1, 1)
         [] ret.kind = "WakeUp" -> wake_up(s1, pid, 0)

sem_signal(s, key) ==
    LET ret == sem_signal_res(s.sems[CurSet(s)], key)
        s1 == [s EXCEPT !.sems[CurSet(s)] = ret.set]
    IN CASE ret.kind = "Ok" -> set_rax(s1, 0)
         [] ret.kind = "NotExist" -> set_rax(s1, 1)
         [] ret.kind = "WakeUp" -> wake_up(s1, ret.pid, 0)

new_sem(s, key, init) ==
    set_rax([s EXCEPT !.sems[CurSet(s)] = sem_new_set(@, key, init)],
            IF sem_new_ok(s.sems[CurSet(s)], key) THEN 0 ELSE 1)

remove_sem(s, key) ==
    set_rax([s EXCEPT !.sems[CurSet(s)] = sem_remove_set(@, key)],
            IF sem_remove_ok(s.sems[CurSet(s)], key) THEN 0 ELSE 1)

\* ---------------------------------------------- syscall (service.rs)
\* spawn_process: the name is what arg0 and arg1 point at; 0 on Err, else
\* the pid
spawn_process(s, args) ==
    LET pid == spawn(s, args.arg0)
    IN [s |-> pid.s, ret |-> IF pid.err THEN 0 ELSE pid.pid]

\* (mutant) argument 0 is taken as an address
sys_brk_ZeroIsAddress(s, args) == brk(s, Some(args.arg0))

\* sys_brk: argument 0 is no address
sys_brk(s, args) ==
    LET new_heap_end == IF args.arg0 = 0 THEN None ELSE Some(args.arg0)
    IN brk(s, new_heap_end)

exit_process(s, args) == process_exit(s, args.arg0)

sys_wait_pid(s, args) == wait_pid(s, args.arg0 % U16)

\* (mutant) the kernel's pid is not rejected
sys_kill_NoGuard(s, args) == kill(s, args.arg0 % U16)

sys_kill(s, args) ==
    LET pid == args.arg0 % U16
    IN IF pid = 1 THEN s ELSE kill(s, pid)

sys_fork(s) == fork(s)

sys_get_pid(s) == s.current

sys_sem(s, args) ==
    CASE args.arg0 = 0 -> new_sem(s, args.arg1, args.arg2)
      [] args.arg0 = 1 -> remove_sem(s, args.arg1)
      [] args.arg0 = 2 -> sem_signal(s, args.arg1)
      [] args.arg0 = 3 -> sem_wait(s, args.arg1)
      [] OTHER -> set_rax(s, USIZE_MAX)

\* ------------------------------------------------ syscall (mod.rs)
\* (mutant) Kill returns 0 through the frame the dispatcher was handed
dispatcher_KillReturns0(s, args) ==
    LET call == Syscall_from(s.ctx.rax)
    IN CASE call = "Sem" -> sys_sem(s, args)
         [] call = "Fork" -> sys_fork(s)
         [] call = "GetPid" -> set_rax(s, sys_get_pid(s))
         [] call = "Brk" -> LET r == sys_brk(s, args)
                            IN set_rax(r.s, r.ret)
         [] call = "Spawn" -> LET r == spawn_process(s, args)
                              IN set_rax(r.s, r.ret)
         [] call = "Exit" -> exit_process(s, args)
         [] call = "WaitPid" -> sys_wait_pid(s, args)
         [] call = "Kill" -> set_rax(sys_kill(s, args), 0)
         [] call = "Stat" -> s
         [] call = "ListApp" -> s
         [] call = "None" -> s

\* (mutant) an unrecognized call returns 0
dispatcher_NoneReturns0(s, args) ==
    LET call == Syscall_from(s.ctx.rax)
    IN CASE call = "Sem" -> sys_sem(s, args)
         [] call = "Fork" -> sys_fork(s)
         [] call = "GetPid" -> set_rax(s, sys_get_pid(s))
         [] call = "Brk" -> LET r == sys_brk(s, args)
                            IN set_rax(r.s, r.ret)
         [] call = "Spawn" -> LET r == spawn_process(s, args)
                              IN set_rax(r.s, r.ret)
         [] call = "Exit" -> exit_process(s, args)
         [] call = "WaitPid" -> sys_wait_pid(s, args)
         [] call = "Kill" -> sys_kill(s, args)
         [] call = "Stat" -> s
         [] call = "ListApp" -> s
         [] call = "None" -> set_rax(s, 0)

\* dispatcher: rax names the call; the arms that are absent here (Read,
\* Write, Time, Allocate, Deallocate) belong to the console, the clock and
\* the allocator, and the programs modelled here do not make those calls
dispatcher(s, args) ==
    LET call == Syscall_from(s.ctx.rax)
    IN CASE call = "Sem" -> sys_sem(s, args)
         [] call = "Fork" -> sys_fork(s)
         [] call = "GetPid" -> set_rax(s, sys_get_pid(s))
         [] call = "Brk" -> LET r == sys_brk(s, args)
                            IN set_rax(r.s, r.ret)
         [] call = "Spawn" -> LET r == spawn_process(s, args)
                              IN set_rax(r.s, r.ret)
         [] call = "Exit" -> exit_process(s, args)
         [] call = "WaitPid" -> sys_wait_pid(s, args)
         [] call = "Kill" -> sys_kill(s, args)
         [] call = "Stat" -> s
         [] call = "ListApp" -> s
         [] call = "None" -> s

Args(a0, a1, a2) == [arg0 |-> a0, arg1 |-> a1, arg2 |-> a2]

\* the user library's sys_brk: !0 read as failure, any other value as the
\* heap end
lib_sys_brk(ret) == IF ret = USIZE_MAX THEN None ELSE Some(ret)

\* the user library's syscall!: the number in rax, then the interrupt
syscall(s, n, a0, a1, a2) == dispatcher(set_rax(s, n), Args(a0, a1, a2))

\* ------------------------------------------------------------ history
NoFork == [role |-> "none", peer |-> NoPid]

\* what the stepping process and a child it made are to see after the step:
\* the child is the pid the step added to the table
ForkRetAfter(s2, isFork) ==
    LET seen == [forkret EXCEPT ![current] = NoFork]
        born == DOMAIN s2.procs \ DOMAIN procs
    IN IF isFork /\ born /= {}
       THEN LET child == CHOOSE c \in born : TRUE
            IN [seen EXCEPT ![current] = [role |-> "parent", peer |-> child],
                            ![child] = [role |-> "child", peer |-> current]]
       ELSE seen

NoHist ==
    [arr |-> [i \in Pids |-> [k \in Keys |-> <<>>]],
     wok |-> [i \in Pids |-> [k \in Keys |-> <<>>]],
     pend |-> [p \in Pids |-> 0],
     run |-> <<>>,
     left |-> [p \in Pids |-> None]]

\* a system call of the running user process that returns to `ret`: the
\* interrupt frame holds the address of the instruction after the call
UserCallOn(s, ret, n, a0, a1, a2) ==
    /\ current /= KERNEL_PID
    /\ LET s2 == syscall([s EXCEPT !.ctx.rip = ret], n, a0, a1, a2)
       IN /\ Commit(s2)
          /\ forkret' = ForkRetAfter(s2, Syscall_from(n) = "Fork")
    /\ last' = IF Syscall_from(n) = "Kill" /\ a0 % U16 = KERNEL_PID
               THEN "kill kernel"
               ELSE IF Syscall_from(n) = "Spawn" THEN "Spawn"
               ELSE IF Syscall_from(n) = "Brk" THEN "Brk " \o ToString(a0)
               ELSE "-"

UserCallTo(ret, n, a0, a1, a2) == UserCallOn(State, ret, n, a0, a1, a2)

UserCall(n, a0, a1, a2) == UserCallTo(ctx.rip, n, a0, a1, a2)

\* instructions of the running user process that make no call
UserStep(s2) ==
    /\ current /= KERNEL_PID
    /\ Commit(s2)
    /\ forkret' = [forkret EXCEPT ![current] = NoFork]
    /\ last' = "-"

\* ---------------------------------------------------------- the kernel
InitWith(apps) ==
    /\ procs = [p \in {KERNEL_PID} |->
                  [NewProcess("kernel", NoPid, KERNEL_PID, KERNEL_PID)
                     EXCEPT !.status = "Running"]]
    /\ ready = <<>>
    /\ current = KERNEL_PID
    /\ ctx = [rax |-> 0, rip |-> "kernel"]
    /\ next_pid = 2
    /\ sems = [p \in Pids |-> EmptySems]
    /\ spaces = [p \in Pids |-> FreshSpace]
    /\ last = "-"
    /\ forkret = [p \in Pids |-> NoFork]
    /\ hist = NoHist
    /\ app_list = apps

\* the applications the boot loader hands over
Apps == {"any"}

Init == InitWith(Some(Apps))

\* the timer interrupt: proc::switch
Timer ==
    /\ Commit(switch(State))
    /\ last' = "-"
    /\ UNCHANGED <<forkret, hist>>

\* the kernel starts an application
KSpawn(name, cap) ==
    /\ current = KERNEL_PID
    /\ next_pid <= cap
    /\ Commit(elf_spawn(State, name))
    /\ last' = "-"
    /\ UNCHANGED <<forkret, hist>>

\* ------------------------------------------- programs of any behaviour
ExitCodes == {64}
KillArgs == Pids \cup {U16 + 1}
UnknownNos == {9999}
Running(loc) == current /= KERNEL_PID /\ ctx.rip = loc

\* the counter of the key, when there is one, is below n
CountBelow(set, key, n) == IF set[key] = None THEN TRUE ELSE set[key][1].count < n

SysFork(cap) ==
    /\ Running("any") /\ next_pid <= cap
    /\ UserCall(Syscall_no("Fork"), 0, 0, 0)
    /\ UNCHANGED hist

SysExit ==
    /\ Running("any")
    /\ \E code \in ExitCodes : UserCall(Syscall_no("Exit"), code, 0, 0)
    /\ UNCHANGED hist

SysWaitPid ==
    /\ Running("any")
    /\ \E pid \in Pids : UserCall(Syscall_no("WaitPid"), pid, 0, 0)
    /\ UNCHANGED hist

SysKill ==
    /\ Running("any")
    /\ \E pid \in KillArgs : UserCall(Syscall_no("Kill"), pid, 0, 0)
    /\ UNCHANGED hist

SysNone ==
    /\ Running("any")
    /\ \E n \in UnknownNos : UserCall(n, 0, 0, 0)
    /\ UNCHANGED hist

\* a store to the static M
UserWrite ==
    /\ Running("any")
    /\ \E v \in {M_INIT, M_CHILD} :
          spaces' = [spaces EXCEPT ![procs[current].vm].M = v]
    /\ forkret' = [forkret EXCEPT ![current] = NoFork]
    /\ last' = "-"
    /\ UNCHANGED <<procs, ready, current, ctx, next_pid, sems, hist, app_list>>

\* --------------------------------------------- programs using semaphores
\* the last place of pid q in a sequence of arrivals (0 when it has none)
LastOf(seq, q) ==
    LET at == {i \in 1..Len(seq) : seq[i].pid = q}
    IN IF at = {} THEN 0 ELSE CHOOSE i \in at : \A j \in at : j <= i

\* the wait of pid q that is pending ends without a wake-up
Drop(h, q) ==
    IF h.pend[q] = 0 THEN h
    ELSE LET set == procs[q].semset
             key == h.pend[q]
             i == LastOf(h.arr[set][key], q)
         IN [h EXCEPT !.arr[set][key][i].live = FALSE, !.pend[q] = 0]

RECURSIVE DropAll(_, _)
DropAll(h, qs) ==
    IF qs = {} THEN h
    ELSE LET q == CHOOSE x \in qs : TRUE IN DropAll(Drop(h, q), qs \ {q})

\* the history after a Sem call of the running process, read off the step:
\* the caller blocked, or a pid was put on the ready queue, or the key left
HistAfterSem(s2, op, key) ==
    LET me == current
        set == procs[me].semset
        woken == {s2.ready[i] : i \in (Len(ready) + 1)..Len(s2.ready)}
    IN IF op = 3 /\ s2.procs[me].status = "Blocked"
       THEN [hist EXCEPT !.arr[set][key] = Append(@, [pid |-> me, live |-> TRUE]),
                         !.pend[me] = key]
       ELSE IF op = 2 /\ woken /= {}
       THEN LET q == CHOOSE x \in woken : TRUE
            IN [hist EXCEPT !.wok[set][key] = Append(@, q), !.pend[q] = 0]
       ELSE IF op = 1 /\ sems[set][key] /= None
       THEN DropAll(hist, {q \in DOMAIN procs :
                              procs[q].semset = set /\ hist.pend[q] = key})
       ELSE hist

\* the history after a Kill: the waits of the processes it made Dead end
HistAfterKill(s2) ==
    DropAll(hist, {q \in DOMAIN procs :
                      procs[q].status /= "Dead" /\ s2.procs[q].status = "Dead"})

\* at most MaxWaits arrivals are recorded per semaphore
MaxWaits == 2
SemInits == {0}
\* new, del, signal, wait
SemOps == 0..3

SemOp ==
    /\ Running("any")
    /\ \E op \in SemOps, key \in Keys, init \in SemInits :
          /\ op = 2 => CountBelow(sems[procs[current].semset], key, MaxCount)
          /\ op = 3 => Len(hist.arr[procs[current].semset][key]) < MaxWaits
          /\ UserCall(Syscall_no("Sem"), op, key, init)
          /\ hist' = HistAfterSem(syscall(State, Syscall_no("Sem"), op, key, init),
                                  op, key)

\* a Kill of a process that is blocked
SemKill ==
    /\ Running("any")
    /\ \E pid \in DOMAIN procs :
          /\ procs[pid].status = "Blocked"
          /\ UserCall(Syscall_no("Kill"), pid, 0, 0)
          /\ hist' = HistAfterKill(syscall(State, Syscall_no("Kill"), pid, 0, 0))

SemNext ==
    \/ Timer
    \/ KSpawn("any", 2)
    \/ SysFork(MaxPid)
    \/ SemOp
    \/ SemKill

SemSpec == Init /\ [][SemNext]_vars

\* ------------------------------------------------- the fork test program
\* app/fork main: c = 32, fork; the child checks c, stores M and returns
\* c + 32; the parent waits for it, checks the code, M and c, and returns c.
\* A failed assert_eq! panics: the program takes no further step.
ForkApp(p) ==
    /\ current = p
    /\ LET s == State
           me == procs[p].vm
           mem == spaces[me]
           at(loc) == [s EXCEPT !.ctx.rip = loc]
       IN CASE ctx.rip = "fork" ->
                 /\ next_pid <= MaxPid
                 /\ UserCallOn([s EXCEPT !.spaces[me].c = 32], "f_forked",
                               Syscall_no("Fork"), 0, 0, 0)
            [] ctx.rip = "f_forked" ->
                 IF ctx.rax % U16 = 0
                 THEN UserStep(at("f_child"))
                 ELSE UserCallOn([s EXCEPT !.spaces[me].pid = ctx.rax % U16],
                                 "f_parent", Syscall_no("Stat"), 0, 0, 0)
            [] ctx.rip = "f_child" ->
                 IF mem.c = 32
                 THEN UserStep([at("f_child_ret") EXCEPT
                                  !.spaces[me].M = M_CHILD,
                                  !.spaces[me].c = mem.c + 32])
                 ELSE UserStep(at("panic"))
            [] ctx.rip = "f_child_ret" ->
                 UserCallTo("f_child_ret", Syscall_no("Exit"), mem.c, 0, 0)
            [] ctx.rip = "f_parent" ->
                 IF mem.c = 32
                 THEN UserCallTo("f_waited", Syscall_no("WaitPid"), mem.pid, 0, 0)
                 ELSE UserStep(at("panic"))
            [] ctx.rip = "f_waited" ->
                 IF ctx.rax = 64
                 THEN UserStep(at("f_check"))
                 ELSE UserStep(at("panic"))
            [] ctx.rip = "f_check" ->
                 IF mem.M = M_CHILD /\ mem.c + 1024 = 1056
                 THEN UserStep([at("f_ret") EXCEPT !.spaces[me].c = mem.c + 1024])
                 ELSE UserStep(at("panic"))
            [] ctx.rip = "f_ret" ->
                 UserCallTo("f_ret", Syscall_no("Exit"), mem.c, 0, 0)
            [] OTHER -> FALSE
    /\ UNCHANGED hist

ForkNext ==
    \/ Timer
    \/ KSpawn("fork", 3)
    \/ \E p \in Pids : ForkApp(p)

\* timer interrupts keep coming, and user code is not held up for ever: if
\* again and again some process is dispatched with an instruction to
\* execute, instructions are executed
ForkSpec ==
    /\ Init /\ [][ForkNext]_vars
    /\ WF_vars(Timer)
    /\ SF_vars(\E p \in Pids : ForkApp(p))

\* ------------------------------------------- the critical-section program
\* sem_new(k, 1), then any number of forks, then each process repeats
\* sem_wait(k); critical section; sem_signal(k), and may exit outside it
MutexKey == CHOOSE k \in Keys : TRUE

MNew ==
    /\ Running("mutex")
    /\ UserCallTo("m_fork", Syscall_no("Sem"), 0, MutexKey, 1)
    /\ UNCHANGED hist

MFork ==
    /\ Running("m_fork") /\ next_pid <= MaxPid
    /\ UserCallTo("m_fork", Syscall_no("Fork"), 0, 0, 0)
    /\ UNCHANGED hist

MWait ==
    /\ (Running("m_fork") \/ Running("m_rem"))
    /\ UserCallTo("m_cs", Syscall_no("Sem"), 3, MutexKey, 0)
    /\ UNCHANGED hist

MSignal ==
    /\ Running("m_cs")
    /\ UserCallTo("m_rem", Syscall_no("Sem"), 2, MutexKey, 0)
    /\ UNCHANGED hist

MExit ==
    /\ Running("m_rem")
    /\ UserCallTo("m_rem", Syscall_no("Exit"), 0, 0, 0)
    /\ UNCHANGED hist

MutexNext ==
    \/ Timer
    \/ KSpawn("mutex", 2)
    \/ MNew
    \/ MFork
    \/ MWait
    \/ MSignal
    \/ MExit

MutexSpec == Init /\ [][MutexNext]_vars

\* ------------------------------------------- programs that start programs
SpawnNames == {"any", "nope"}

SysSpawn(cap) ==
    /\ Running("any") /\ next_pid <= cap
    /\ \E name \in SpawnNames : UserCall(Syscall_no("Spawn"), name, 0, 0)
    /\ UNCHANGED hist

SpawnInit == \E apps \in {None, Some(Apps)} : InitWith(apps)

SpawnNext ==
    \/ Timer
    \/ KSpawn("any", 2)
    \/ SysSpawn(MaxPid)
    \/ SysExit

SpawnSpec == SpawnInit /\ [][SpawnNext]_vars

\* ------------------------------------------------ programs that use brk
\* no address; addresses that round to HEAP_START, into the heap's range and
\* to HEAP_MAX; addresses beyond HEAP_MAX, below and in the stack range
BrkArgs == {0, 5, 9, 16, 17, 30}

SysBrk ==
    /\ Running("any")
    /\ \E a \in BrkArgs : UserCall(Syscall_no("Brk"), a, 0, 0)
    /\ UNCHANGED hist

BrkNext ==
    \/ Timer
    \/ KSpawn("any", 2)
    \/ SysFork(MaxLife)
    \/ SysBrk

BrkSpec == Init /\ [][BrkNext]_vars

\* ------------------------------------------- programs that stay runnable
\* windows of up to KMax rounds of timer ticks are recorded
KMax == 2
MaxWindow == KMax * MaxPid

\* the last n elements of a sequence
LastN(seq, n) ==
    IF Len(seq) <= n THEN seq ELSE SubSeq(seq, Len(seq) - n + 1, Len(seq))

\* a timer tick, the pid it dispatches recorded
Tick ==
    /\ Commit(switch(State))
    /\ last' = "-"
    /\ hist' = [hist EXCEPT !.run = LastN(Append(@, switch(State).current),
                                          MaxWindow)]
    /\ UNCHANGED forkret

\* the kernel starts an application: the set of processes changes, and the
\* record starts afresh
TSpawn ==
    /\ current = KERNEL_PID
    /\ next_pid <= MaxPid
    /\ Commit(elf_spawn(State, "any"))
    /\ last' = "-"
    /\ hist' = [hist EXCEPT !.run = <<>>]
    /\ UNCHANGED forkret

TickNext ==
    \/ Tick
    \/ TSpawn
    \/ SysNone
    \/ UserWrite

TickSpec == Init /\ [][TickNext]_vars

\* --------------------------------------- programs making every kernel entry
\* a Sem call, the counter kept at MaxCount at most
SysSem ==
    /\ Running("any")
    /\ \E op \in SemOps, key \in Keys, init \in SemInits :
          /\ op = 2 => CountBelow(sems[procs[current].semset], key, MaxCount)
          /\ UserCall(Syscall_no("Sem"), op, key, init)
    /\ UNCHANGED hist

KernelNext ==
    \/ Timer
    \/ KSpawn("any", MaxLife)
    \/ SysFork(MaxLife)
    \/ SysSpawn(MaxLife)
    \/ SysExit
    \/ SysWaitPid
    \/ SysKill
    \/ SysSem

KernelSpec == Init /\ [][KernelNext]_vars

\* ------------------------------------------- programs that kill and wait
KillNext ==
    \/ Timer
    \/ KSpawn("any", MaxPid)
    \/ SysWaitPid
    \/ SysKill

KillSpec == Init /\ [][KillNext]_vars

\* ------------------------------ programs whose registers change
\* the values a program computes into rax, and the places it runs at
\* besides the one it makes its calls from
UserRax == {7}
UserLocs == {"any", "loop"}

\* p is woken by the step that leads to s2
WokenIn(s2, p) ==
    /\ p \in DOMAIN procs /\ procs[p].status = "Blocked"
    /\ p \in DOMAIN s2.procs /\ s2.procs[p].status \in {"Ready", "Running"}

\* the record of the register files the processes left the CPU with, after
\* an entry that found `frame` in the interrupt frame and leads to s2: the
\* current process, when it leaves the CPU alive, left with `frame`
\* (wrote: fork or a wake-up has written its return register since; back:
\* it has been dispatched since); a wake-up and a dispatch are noted
LeftAfter(frame, s2, isFork) ==
    [p \in Pids |->
        IF p = current /\ s2.current /= current
              /\ p \in DOMAIN s2.procs /\ s2.procs[p].status /= "Dead"
        THEN Some([regs |-> frame, wrote |-> isFork, back |-> FALSE])
        ELSE IF hist.left[p] = None
        THEN None
        ELSE Some([hist.left[p][1] EXCEPT
                     !.wrote = @ \/ WokenIn(s2, p),
                     !.back = @ \/ (p = s2.current /\ s2.current /= current)])]

\* an interrupt entry with `frame` in the interrupt frame, leading to s2
CtxEntry(frame, s2, isFork) ==
    /\ Commit(s2)
    /\ forkret' = ForkRetAfter(s2, isFork)
    /\ last' = "-"
    /\ hist' = [hist EXCEPT !.left = LeftAfter(frame, s2, isFork)]

\* the timer interrupt, at any instruction
CtxTimer == CtxEntry(ctx, switch(State), FALSE)

\* a system call from "any": the frame holds the call number in rax
CtxCall(n, a0, a1, a2) ==
    /\ Running("any")
    /\ CtxEntry([ctx EXCEPT !.rax = n], syscall(State, n, a0, a1, a2),
                Syscall_from(n) = "Fork")

CtxFork == next_pid <= MaxLife /\ CtxCall(Syscall_no("Fork"), 0, 0, 0)

CtxExit == \E code \in ExitCodes : CtxCall(Syscall_no("Exit"), code, 0, 0)

CtxWaitPid == \E pid \in Pids : CtxCall(Syscall_no("WaitPid"), pid, 0, 0)

CtxKill == \E pid \in KillArgs : CtxCall(Syscall_no("Kill"), pid, 0, 0)

CtxSem ==
    \E op \in SemOps, key \in Keys, init \in SemInits :
        /\ op = 2 => CountBelow(sems[procs[current].semset], key, MaxCount)
        /\ CtxCall(Syscall_no("Sem"), op, key, init)

\* instructions that make no call: the program computes into rax and moves
\* on to another place
CtxRun ==
    /\ current /= KERNEL_PID
    /\ \E v \in UserRax, loc \in UserLocs \ {ctx.rip} :
          UserStep([State EXCEPT !.ctx = [rax |-> v, rip |-> loc]])
    /\ UNCHANGED hist

CtxNext ==
    \/ CtxTimer
    \/ KSpawn("any", MaxLife)
    \/ CtxFork
    \/ CtxExit
    \/ CtxWaitPid
    \/ CtxKill
    \/ CtxSem
    \/ CtxRun

CtxSpec == Init /\ [][CtxNext]_vars

Next ==
    \/ Timer
    \/ KSpawn("any", MaxLife)
    \/ SysFork(MaxLife)
    \/ SysExit
    \/ SysWaitPid
    \/ SysKill
    \/ SysNone
    \/ UserWrite

Spec == Init /\ [][Next]_vars

\* ------------------------------------------------------------ claims
\* the register a process finds its system call's result in, and the
\* instruction it is at
Seen(p) == IF p = current THEN ctx.rax ELSE procs[p].context.rax
Loc(p) == IF p = current THEN ctx.rip ELSE procs[p].context.rip
Live(p) == p \in DOMAIN procs /\ procs[p].status \in {"Ready", "Running"}

\* C1: after a fork, from the fork until its first instruction the child
\* finds 0 in rax wherever it is dispatched, the parent finds the child's
\* pid, and the child's pid is neither 0 nor the parent's
C1_ForkReturn ==
    \A p \in Pids :
        (forkret[p].role /= "none" /\ Live(p)) =>
            LET peer == forkret[p].peer
            IN /\ forkret[p].role = "child" => Seen(p) = 0 /\ p /= 0 /\ p /= peer
               /\ forkret[p].role = "parent" =>
                      Seen(p) = peer /\ peer /= 0 /\ peer /= p

\* the child is running for the first time with rax 0 while its parent waits
\* on the ready queue with the child's pid in its saved rax
C1_Witness ==
    \E c \in Pids :
        /\ current = c /\ forkret[c].role = "child" /\ ctx.rax = 0
        /\ LET p == forkret[c].peer
           IN /\ Live(p) /\ forkret[p] = [role |-> "parent", peer |-> c]
              /\ procs[p].context.rax = c

\* C3 (as claimed): every pid that fork or spawn returned is live in the
\* table, or is Dead with its code still to be collected, or has left the
\* table with its code collected, and then nobody is blocked in wait_pid on
\* it: a later wait_pid reports the unknown pid instead of blocking forever
C3_WaitedOnceThenUnknown ==
    \A p \in 2..(next_pid - 1) :
        \/ p \in DOMAIN procs
        \/ \A q \in DOMAIN procs :
              ~(procs[q].status = "Blocked" /\ procs[q].waitFor = p)

\* the user memory of a process
Space(p) == spaces[procs[p].vm]

Kernel == <<procs, ready, current, next_pid, sems, spaces>>

C10_KernelNeverDead ==
    /\ [](KERNEL_PID \in DOMAIN procs /\ procs[KERNEL_PID].status /= "Dead")
    /\ [][\A a \in KillArgs :
            (a % U16 = KERNEL_PID /\ UserCall(Syscall_no("Kill"), a, 0, 0)) =>
                UNCHANGED Kernel /\ procs[current].status = "Running"]_vars

\* a user process has just made a Kill of pid 1 and is still running
C10_Witness ==
    /\ last = "kill kernel" /\ current /= KERNEL_PID
    /\ procs[current].status = "Running"
    /\ procs[KERNEL_PID].status = "Ready"

\* C8 (as claimed): a Sem call with op 0..3 that completes leaves 0 in the
\* caller's rax when it succeeded and 1 when the key was missing (or, for
\* new, present), and a process woken from a wait finds 0 in its saved rax
C8_SemReturns0Or1 ==
    [][\A op \in SemOps, key \in Keys, init \in SemInits :
          UserCall(Syscall_no("Sem"), op, key, init) =>
              LET present == sems[procs[current].semset][key] /= None
                  ok == IF op = 0 THEN ~present ELSE present
              IN /\ current' = current => ctx'.rax = (IF ok THEN 0 ELSE 1)
                 /\ \A q \in DOMAIN procs :
                       (procs[q].status = "Blocked" /\ procs'[q].status = "Ready")
                           => procs'[q].context.rax = 0]_vars

\* the pids of the arrivals, all of them and those not dropped
PidsOf(seq) == [i \in 1..Len(seq) |-> seq[i].pid]
Kept(seq) == PidsOf(SelectSeq(seq, LAMBDA e : e.live))
IsPrefix(a, b) == Len(a) <= Len(b) /\ \A i \in 1..Len(a) : a[i] = b[i]

\* C7 (amended): per semaphore, the pids woken by signal are a prefix of the
\* pids that blocked in wait, in arrival order, the waits left out that ended
\* without a wake-up (the waiter killed, or the semaphore removed)
C7_WakeOrderIsArrivalOrder ==
    \A i \in Pids, k \in Keys : IsPrefix(hist.wok[i][k], Kept(hist.arr[i][k]))

\* C7 (as claimed): ... a prefix of all the pids that blocked in wait
C7_WakePrefixOfAllArrivals ==
    \A i \in Pids, k \in Keys : IsPrefix(hist.wok[i][k], PidsOf(hist.arr[i][k]))

\* two processes blocked on a semaphore, one after the other, and signals
\* have woken both, the first arrival first
C7_Witness ==
    \E i \in Pids, k \in Keys :
        /\ Len(hist.wok[i][k]) >= 2
        /\ hist.wok[i][k][1] /= hist.wok[i][k][2]
        /\ \A j \in 1..2 : hist.arr[i][k][j].live
        /\ hist.arr[i][k][1].pid = hist.wok[i][k][1]

\* the parent of the fork test has called wait_pid and not yet gone on
Waiting(p) ==
    p \in DOMAIN procs /\ procs[p].status /= "Dead" /\ Loc(p) = "f_waited"

\* it is running again, at the instruction after the call, with the code
Resumed(p) == current = p /\ ctx.rip = "f_waited" /\ ctx.rax = 64

\* C2: a parent that called wait_pid on its child is in the end running
\* again with the child's exit code (64) in rax, whether the child had
\* exited before the call or exits after it
C2_WaitPidResumesWithCode ==
    \A p \in Pids : [](Waiting(p) => <>Resumed(p))

\* the parent was blocked by the call and the child's exit has woken it: it
\* is running with the code while the child is still in the table, Dead
C2_Witness ==
    \E p \in Pids :
        /\ Resumed(p) /\ procs[p].status = "Running"
        /\ spaces[procs[p].vm].pid \in DOMAIN procs
        /\ procs[spaces[procs[p].vm].pid].status = "Dead"

\* C5 (as claimed): when the parent of the fork test comes to read M after
\* its wait_pid has returned, it reads the value the child stored
C5_ParentReadsChildStore ==
    \A p \in DOMAIN procs :
        (Live(p) /\ Loc(p) = "f_check") => Space(p).M = M_CHILD

\* a process is in its critical section: it has returned from sem_wait (or
\* was woken from it) and has not yet made its sem_signal
InCS(p) == Live(p) /\ Loc(p) = "m_cs"

\* C6: at most one process is in its critical section
C6_MutualExclusion ==
    \A p, q \in DOMAIN procs : (InCS(p) /\ InCS(q)) => p = q

\* one process is in its critical section while another is blocked in
\* sem_wait
C6_Witness ==
    \E p, q \in DOMAIN procs :
        /\ InCS(p) /\ procs[p].status = "Running"
        /\ procs[q].status = "Blocked" /\ procs[q].context.rip = "m_cs"

\* C11: a Spawn of a name that is not in the application list, or made when
\* there is no list, returns 0, allocates no pid, leaves the table and the
\* ready queue as they were, and the caller goes on running
C11_UnknownAppSpawnsNothing ==
    [][\A name \in SpawnNames :
          ((app_list = None \/ name \notin app_list[1])
              /\ UserCall(Syscall_no("Spawn"), name, 0, 0)) =>
                  /\ UNCHANGED Kernel
                  /\ ctx' = [ctx EXCEPT !.rax = 0]
                  /\ procs'[current'].status = "Running"]_vars

\* a user process has just asked for an application the list does not have
C11_Witness ==
    /\ last = "Spawn" /\ app_list /= None /\ current /= KERNEL_PID
    /\ ctx.rax = 0 /\ procs[current].status = "Running"

\* the end of the heap of a process
HeapEnd(p) == Space(p).heap_end

\* C12: brk without an address changes nothing and returns the heap end, and
\* the heap end of a process changes only by a brk with an address of its
\* own, so that two brk(None) with none such between return the same
C12_BrkNoneIsPure ==
    [][/\ UserCall(Syscall_no("Brk"), 0, 0, 0) =>
              UNCHANGED Kernel /\ ctx' = [ctx EXCEPT !.rax = HeapEnd(current)]
       /\ \A p \in DOMAIN procs \cap DOMAIN procs' :
              HeapEnd(p)' /= HeapEnd(p) =>
                  /\ current = p
                  /\ \E a \in BrkArgs \ {0} : UserCall(Syscall_no("Brk"), a, 0, 0)]_vars

\* a process that has grown its heap has just asked for the heap end
C12_Witness ==
    /\ last = "Brk 0" /\ current /= KERNEL_PID
    /\ HeapEnd(current) > HEAP_START /\ ctx.rax = HeapEnd(current)

Count(seq, p) == Cardinality({i \in 1..Len(seq) : seq[i] = p})

\* C14: while the same N processes stay runnable, each of them is among the
\* pids dispatched by any K*N consecutive timer ticks at least K-1 times;
\* and a tick puts the running process at the tail of the ready queue and
\* dispatches the head
C14_RoundRobin ==
    /\ [](LET N == Cardinality(DOMAIN procs)
          IN \A K \in 1..KMax :
                Len(hist.run) >= K * N =>
                    \A p \in DOMAIN procs :
                        Count(LastN(hist.run, K * N), p) >= K - 1)
    /\ [][Tick => /\ current' = Head(Append(ready, current))
                  /\ ready' = Tail(Append(ready, current))]_vars

\* three or more processes have been through two full rounds of ticks
C14_Witness ==
    LET N == Cardinality(DOMAIN procs)
    IN /\ N >= 3 /\ Len(hist.run) >= KMax * N
       /\ \A p \in DOMAIN procs : Count(LastN(hist.run, KMax * N), p) = KMax

\* C15: the current process is Running and no other process is: the others
\* are Ready, Blocked or Dead
C15_OneRunning ==
    /\ current \in DOMAIN procs /\ procs[current].status = "Running"
    /\ \A p \in DOMAIN procs \ {current} :
          procs[p].status \in {"Ready", "Blocked", "Dead"}

\* after an exit or a kill, one process is Running while another is Blocked
\* and a third is Dead
C15_Witness ==
    /\ procs[current].status = "Running"
    /\ \E p, q \in DOMAIN procs :
          procs[p].status = "Blocked" /\ procs[q].status = "Dead"

\* C16: a Ready process is on the ready queue exactly once, and a process
\* that is Running, Blocked or Dead, or a pid that is in no table, not at all
C16_ReadyOnceInQueue ==
    /\ \A p \in DOMAIN procs :
          Count(ready, p) = IF procs[p].status = "Ready" THEN 1 ELSE 0
    /\ \A i \in 1..Len(ready) : ready[i] \in DOMAIN procs

\* after a fork, parent and child are both on the ready queue, once each
C16_Witness ==
    \E c \in DOMAIN procs :
        /\ forkret[c].role = "child" /\ forkret[c].peer \in DOMAIN procs
        /\ procs[c].status = "Ready" /\ procs[forkret[c].peer].status = "Ready"
        /\ Count(ready, c) = 1 /\ Count(ready, forkret[c].peer) = 1

\* p is in the waiter queue of a semaphore that exists
Queued(p) ==
    \E i \in Pids, k \in Keys :
        /\ sems[i][k] /= None
        /\ \E j \in 1..Len(sems[i][k][1].queue) : sems[i][k][1].queue[j] = p

\* p waits on a pid that is a live process of the table
AwaitsLive(p) ==
    /\ procs[p].waitFor \in DOMAIN procs
    /\ procs[procs[p].waitFor].status /= "Dead"

\* C17 (as claimed): every Blocked process has a wake source: it is queued
\* on a semaphore that exists, or it waits on a live process of the table
C17_BlockedHasWakeSource ==
    \A p \in DOMAIN procs :
        procs[p].status = "Blocked" => Queued(p) \/ AwaitsLive(p)

\* C18: a process killed while Blocked in a semaphore wait is Dead and in no
\* waiter queue; a Dead process is in no waiter queue and not on the ready
\* queue, and it stays Dead for as long as it is in the table, so that no
\* later signal wakes it
C18_KilledWaiterStaysDead ==
    /\ [](\A p \in DOMAIN procs :
              procs[p].status = "Dead" => ~Queued(p) /\ Count(ready, p) = 0)
    /\ [][/\ \A p \in DOMAIN procs :
                (procs[p].status = "Blocked" /\ Queued(p)
                    /\ UserCall(Syscall_no("Kill"), p, 0, 0)) =>
                        (procs'[p].status = "Dead" /\ ~Queued(p)')
          /\ \A q \in DOMAIN procs \cap DOMAIN procs' :
                procs[q].status = "Dead" => procs'[q].status = "Dead"]_vars

\* p was killed while it waited on a semaphore, and a later signal on that
\* semaphore has woken a process that arrived after p; p is still Dead
C18_Witness ==
    \E i \in Pids, k \in Keys, p \in DOMAIN procs :
        /\ procs[p].status = "Dead"
        /\ \E j, j2 \in 1..Len(hist.arr[i][k]) :
              /\ j < j2
              /\ hist.arr[i][k][j] = [pid |-> p, live |-> FALSE]
              /\ hist.arr[i][k][j2].live
              /\ \E w \in 1..Len(hist.wok[i][k]) :
                    hist.wok[i][k][w] = hist.arr[i][k][j2].pid

\* the processes blocked in wait_pid on pid
WaitersOn(pid) ==
    {w \in DOMAIN procs \ {pid} :
        procs[w].status = "Blocked" /\ procs[w].waitFor = pid}

\* C19: a Kill of a live process that is neither the caller nor pid 1 makes
\* the target Dead with code 0xdead and takes it off the ready queue, wakes
\* the processes blocked in wait_pid on it with 0xdead, and the caller runs
\* on without a context switch; a Kill of the caller makes it Dead with
\* 0xdead and dispatches the head of the ready queue; and a Dead process is
\* never the one dispatched
C19_KillMarksDead ==
    /\ [](procs[current].status /= "Dead")
    /\ [][\A a \in KillArgs :
            LET pid == a % U16
            IN (pid \in DOMAIN procs /\ procs[pid].status /= "Dead"
                   /\ pid /= KERNEL_PID
                   /\ UserCall(Syscall_no("Kill"), a, 0, 0)) =>
                 /\ procs'[pid].status = "Dead"
                 /\ procs'[pid].exit_code = Some(KILL_CODE)
                 /\ Count(ready', pid) = 0
                 /\ \A w \in WaitersOn(pid) :
                       /\ procs'[w].status = "Ready" /\ Count(ready', w) = 1
                       /\ procs'[w].context.rax = KILL_CODE
                 /\ IF pid /= current
                    THEN /\ current' = current
                         /\ procs'[current].status = "Running"
                         /\ ctx' = [ctx EXCEPT !.rax = Syscall_no("Kill")]
                    ELSE /\ current' = Head(ready)
                         /\ ready' = Tail(ready) \o InOrder(WaitersOn(pid))
                         /\ procs'[current'].status = "Running"]_vars

\* a process has just killed another one, on which a third was blocked in
\* wait_pid: the target is Dead, the waiter is Ready with 0xdead in its
\* saved rax, and the killer is still running
C19_Witness ==
    \E pid, w \in DOMAIN procs :
        /\ pid /= current /\ w /= current /\ current /= KERNEL_PID
        /\ ctx.rax = Syscall_no("Kill") /\ procs[current].status = "Running"
        /\ procs[pid].status = "Dead" /\ procs[pid].exit_code = Some(KILL_CODE)
        /\ procs[w].status = "Ready" /\ procs[w].context.rax = KILL_CODE

\* C20: for every semaphore key the counter is positive only if the waiter
\* queue is empty. A wait on an existing key decrements the counter when it
\* is positive and leaves the queue alone, otherwise it appends the caller
\* to the queue and leaves the counter alone. A signal on an existing key
\* with a waiter removes the head of the queue and leaves the counter
\* alone, otherwise it increments the counter.
SemOf(key) == sems[procs[current].semset][key][1]
SemOfNext(key) == sems'[procs[current].semset][key][1]
C20_CounterPositiveOnlyWithoutWaiters ==
    /\ [](\A i \in DOMAIN sems : \A k \in Keys :
            (sems[i][k] /= None /\ sems[i][k][1].count > 0) =>
               sems[i][k][1].queue = <<>>)
    /\ [][\A key \in Keys :
            (sems[procs[current].semset][key] /= None
                /\ UserCall(Syscall_no("Sem"), 3, key, 0)) =>
               IF SemOf(key).count > 0
               THEN /\ SemOfNext(key).count = SemOf(key).count - 1
                    /\ SemOfNext(key).queue = SemOf(key).queue
               ELSE /\ SemOfNext(key).count = SemOf(key).count
                    /\ SemOfNext(key).queue = Append(SemOf(key).queue, current)]_vars
    /\ [][\A key \in Keys :
            (sems[procs[current].semset][key] /= None
                /\ UserCall(Syscall_no("Sem"), 2, key, 0)) =>
               IF SemOf(key).queue /= <<>>
               THEN /\ SemOfNext(key).count = SemOf(key).count
                    /\ SemOfNext(key).queue = Tail(SemOf(key).queue)
               ELSE /\ SemOfNext(key).count = SemOf(key).count + 1
                    /\ SemOfNext(key).queue = SemOf(key).queue]_vars

\* a semaphore that has been counted up by a signal without a waiter, and
\* a process that has since been woken from its queue by a later signal
C20_Witness ==
    \E i \in DOMAIN sems : \E k \in Keys :
        /\ sems[i][k] /= None
        /\ sems[i][k][1].count > 0
        /\ Len(hist.wok[i][k]) > 0

\* C21: the register file a process finds when it is dispatched is the one
\* it left the CPU with, but for the return register when fork or a
\* wake-up has written it since (and a timer tick that dispatches the
\* process it interrupted leaves its registers as they were); no entry
\* writes the saved context of a process that is neither the caller nor
\* woken by the entry
WokenStep(p) ==
    /\ p \in DOMAIN procs /\ procs[p].status = "Blocked"
    /\ p \in DOMAIN procs' /\ procs'[p].status \in {"Ready", "Running"}
C21_ContextRoundTrip ==
    /\ [][(current' /= current /\ hist.left[current'] /= None) =>
            LET l == hist.left[current'][1]
            IN /\ ~l.back
               /\ ctx'.rip = l.regs.rip
               /\ (~l.wrote /\ ~WokenStep(current')) => ctx'.rax = l.regs.rax]_vars
    /\ [][(current' = current /\ CtxTimer) => ctx' = ctx]_vars
    /\ [][\A p \in DOMAIN procs \cap DOMAIN procs' :
            (p /= current /\ ~WokenStep(p)) =>
               procs'[p].context = procs[p].context]_vars

\* a process is back on the CPU with the registers a timer tick took from
\* it at "loop", while another, woken with a return value, waits for the CPU
C21_Witness ==
    /\ current /= KERNEL_PID
    /\ hist.left[current] /= None
    /\ hist.left[current][1] = [regs |-> [rax |-> 7, rip |-> "loop"],
                                wrote |-> FALSE, back |-> TRUE]
    /\ ctx = [rax |-> 7, rip |-> "loop"]
    /\ \E q \in DOMAIN procs \ {current} :
          /\ procs[q].status = "Ready"
          /\ hist.left[q] /= None
          /\ hist.left[q][1].wrote /\ ~hist.left[q][1].back
          /\ procs[q].context.rax /= hist.left[q][1].regs.rax

====
